---- MODULE Spec2Model ----
(***************************************************************************)
(* Session state and validation engine of the voice onboarding agent       *)
(* (tools1.py) together with the Assistant that drives it (agent1.py).     *)
(*                                                                         *)
(* Python values are modelled as tagged records (PyNone, PyStr, PyInt,     *)
(* PyList, PyDict); a string is the sequence of its characters, so that    *)
(* strip(), the length bounds and the phone pattern are computed.  A file  *)
(* holds a JSON tree written by json.dump and read back by json.load.      *)
(* Every tool is a coroutine that never suspends (no await reaches the     *)
(* event loop), so each tool call is one atomic action.                    *)
(***************************************************************************)
EXTENDS Integers, Sequences, FiniteSets, TLC

VARIABLES
    sessions_data,       \* tools1.sessions_data: session id -> session dict
    current_session_id,  \* tools1.current_session_id
    files,               \* the directory: session id -> content of its file
    assistants,          \* the session ids of the Assistant objects made
    clock,               \* datetime.now(), counted in appended entries
    nops,                \* number of steps taken so far
    last_op,             \* the last call: operation, arguments and result
    snapshot             \* per id, the session its last successful save wrote

vars ==
    <<sessions_data, current_session_id, files, assistants, clock, nops,
      last_op, snapshot>>

(***************************************************************************)
(* Bounds of the model.                                                    *)
(***************************************************************************)
\* number of transcript entries that are appended in one behaviour
MaxClock == 2
\* number of tool calls and environment steps in one behaviour
MaxOps == 3

(***************************************************************************)
(* Python values.                                                          *)
(***************************************************************************)
PyNone == [t |-> "None"]
PyStr(s) == [t |-> "str", s |-> s]
PyInt(n) == [t |-> "int", n |-> n]
PyList(l) == [t |-> "list", l |-> l]
PyDict(d) == [t |-> "dict", d |-> d]

\* d.get(key, default)
DictGet(v, key, default) == IF key \in DOMAIN v.d THEN v.d[key] ELSE default

\* bool(v): None, "", 0, [] and {} are falsy
Truthy(v) ==
    CASE v.t = "None" -> FALSE
      [] v.t = "str" -> v.s # <<>>
      [] v.t = "int" -> v.n # 0
      [] v.t = "list" -> v.l # <<>>
      [] v.t = "dict" -> DOMAIN v.d # {}

\* len(v) is defined (otherwise TypeError)
HasLen(v) == v.t \in {"str", "list", "dict"}

(***************************************************************************)
(* Strings as character sequences.                                         *)
(***************************************************************************)
IsSpace(c) == c \in {" ", "\t", "\n", "\r"}

RECURSIVE LStrip(_)
LStrip(s) == IF s # <<>> /\ IsSpace(Head(s)) THEN LStrip(Tail(s)) ELSE s

RECURSIVE RStrip(_)
RStrip(s) ==
    IF s # <<>> /\ IsSpace(s[Len(s)]) THEN RStrip(SubSeq(s, 1, Len(s) - 1)) ELSE s

\* str.strip()
Strip(s) == RStrip(LStrip(s))

UpperLetters ==
    <<"A", "B", "C", "D", "E", "F", "G", "H", "I", "J", "K", "L", "M",
      "N", "O", "P", "Q", "R", "S", "T", "U", "V", "W", "X", "Y", "Z">>
LowerLetters ==
    <<"a", "b", "c", "d", "e", "f", "g", "h", "i", "j", "k", "l", "m",
      "n", "o", "p", "q", "r", "s", "t", "u", "v", "w", "x", "y", "z">>

LowerChar(c) ==
    IF \E i \in 1..Len(UpperLetters) : UpperLetters[i] = c
    THEN LowerLetters[CHOOSE i \in 1..Len(UpperLetters) : UpperLetters[i] = c]
    ELSE c

\* str.lower()
Lower(s) == [i \in 1..Len(s) |-> LowerChar(s[i])]

DigitChars == {"0", "1", "2", "3", "4", "5", "6", "7", "8", "9"}
Digits == <<"0", "1", "2", "3", "4", "5", "6", "7", "8", "9">>

(***************************************************************************)
(* UserOnboarding: the pydantic model.                                     *)
(***************************************************************************)
Fields == {"name", "email", "phone", "country"}

MinNameLen == 2
MaxNameLen == 100
MinPhoneTail == 1
MaxPhoneTail == 14

\* name: Field(strip_whitespace=True, min_length=2, max_length=100)
NameOK(s) ==
    LET v == Strip(s) IN Len(v) >= MinNameLen /\ Len(v) <= MaxNameLen

\* email: EmailStr (one "@", a local part, a dotted domain, no spaces)
EmailOK(s) ==
    LET ats == {i \in 1..Len(s) : s[i] = "@"} IN
    /\ Cardinality(ats) = 1
    /\ \A i \in 1..Len(s) : ~IsSpace(s[i])
    /\ LET at == CHOOSE i \in ats : TRUE IN
       /\ at > 1
       /\ \E dot \in (at + 2)..(Len(s) - 1) : s[dot] = "."
       /\ s[at + 1] # "."
       /\ s[Len(s)] # "."

\* phone: Field(strip_whitespace=True, pattern=r"^\+?[1-9]\d{1,14}$")
PhoneOK(s) ==
    LET v == Strip(s)
        body == IF v # <<>> /\ Head(v) = "+" THEN Tail(v) ELSE v
    IN  /\ Len(body) >= 1 + MinPhoneTail
        /\ Len(body) <= 1 + MaxPhoneTail
        /\ body[1] \in DigitChars \ {"0"}
        /\ \A i \in 2..Len(body) : body[i] \in DigitChars

\* {c.name.lower() for c in pycountry.countries}: a sample of the list
CountryNames ==
    { <<"c", "a", "n", "a", "d", "a">>, <<"i", "n", "d", "i", "a">> }

\* validate_country: v.lower() in countries
validate_country(s) == Lower(s) \in CountryNames

RuleOK(field, s) ==
    CASE field = "name" -> NameOK(s)
      [] field = "email" -> EmailOK(s)
      [] field = "phone" -> PhoneOK(s)
      [] field = "country" -> validate_country(s)

\* a model that only checks the types of the fields
UserOnboarding_types_only(data) ==
    \A f \in Fields \cap DOMAIN data : data[f].t \in {"None", "str"}

\* UserOnboarding(**data) does not raise: every declared field that is given
\* is None or a string that passes its rule; other keys are ignored
UserOnboarding(data) ==
    \A f \in Fields \cap DOMAIN data :
        \/ data[f].t = "None"
        \/ data[f].t = "str" /\ RuleOK(f, data[f].s)

(***************************************************************************)
(* json.dump and json.load.                                                *)
(***************************************************************************)
JNull == [j |-> "null"]
JStr(s) == [j |-> "string", s |-> s]
JNum(n) == [j |-> "number", n |-> n]
JArr(a) == [j |-> "array", a |-> a]
JObj(m) == [j |-> "object", m |-> m]

RECURSIVE json_dump(_)
json_dump(v) ==
    CASE v.t = "None" -> JNull
      [] v.t = "str" -> JStr(v.s)
      [] v.t = "int" -> JNum(v.n)
      [] v.t = "list" -> JArr([i \in 1..Len(v.l) |-> json_dump(v.l[i])])
      [] v.t = "dict" -> JObj([k \in DOMAIN v.d |-> json_dump(v.d[k])])

RECURSIVE json_load(_)
json_load(x) ==
    CASE x.j = "null" -> PyNone
      [] x.j = "string" -> PyStr(x.s)
      [] x.j = "number" -> PyInt(x.n)
      [] x.j = "array" -> PyList([i \in 1..Len(x.a) |-> json_load(x.a[i])])
      [] x.j = "object" -> PyDict([k \in DOMAIN x.m |-> json_load(x.m[k])])

\* the content of a file of the directory
NoFile == [f |-> "absent"]
Garbage == [f |-> "garbage"]
JsonFile(x) == [f |-> "json", x |-> x]

(***************************************************************************)
(* Session store.                                                          *)
(***************************************************************************)
\* the session ids the runtime hands out; "" is the initial value of the
\* current-session pointer and a key like any other
SessionIds == {"A", "B"}
Keys == SessionIds \cup {""}

IdChars(id) == IF id = "" THEN <<>> ELSE <<id>>

EmptyOnboarding == PyDict([f \in Fields |-> PyNone])

NewSession ==
    [onboarding_state |-> EmptyOnboarding, conversation_log |-> PyList(<<>>)]

\* _get_session_data without the `not in sessions_data` test: every access
\* starts the session afresh
get_session_data_resetting(sd, session_id) ==
    [k \in DOMAIN sd \cup {session_id} |->
        IF k = session_id THEN NewSession ELSE sd[k]]

\* the store after _get_session_data(session_id); the session is sd[session_id]
get_session_data(sd, session_id) ==
    IF session_id \in DOMAIN sd
    THEN sd
    ELSE [k \in DOMAIN sd \cup {session_id} |->
            IF k = session_id THEN NewSession ELSE sd[k]]

\* sessions_data[session_id] = session
SetSession(sd, session_id, session) ==
    [k \in DOMAIN sd \cup {session_id} |->
        IF k = session_id THEN session ELSE sd[k]]

(***************************************************************************)
(* Persistence.                                                            *)
(***************************************************************************)
SaveIO == {"ok", "open_fails", "write_fails"}
LoadIO == {"ok", "read_fails"}

\* save_session: the store, the directory and the result afterwards
\* the dict save_session dumps
SessionRecord(session_id, session_data) ==
    PyDict([k \in {"session_id", "onboarding_data", "conversation"} |->
        CASE k = "session_id" -> PyStr(IdChars(session_id))
          [] k = "onboarding_data" -> session_data.onboarding_state
          [] k = "conversation" -> session_data.conversation_log])

\* save_session emptying the log in memory once it is written
save_session_flushing(sd, fl, session_id, io) ==
    LET sd1 == get_session_data(sd, session_id)
        data == SessionRecord(session_id, sd1[session_id])
    IN  CASE io = "open_fails" ->
                [sd |-> sd1, fl |-> fl, result |-> "save_failed"]
          [] io = "write_fails" ->
                [sd |-> sd1,
                 fl |-> [fl EXCEPT ![session_id] = Garbage],
                 result |-> "save_failed"]
          [] io = "ok" ->
                [sd |-> [sd1 EXCEPT ![session_id].conversation_log = PyList(<<>>)],
                 fl |-> [fl EXCEPT ![session_id] = JsonFile(json_dump(data))],
                 result |-> IF HasLen(sd1[session_id].conversation_log)
                            THEN "saved" ELSE "save_failed"]

save_session(sd, fl, session_id, io) ==
    LET sd1 == get_session_data(sd, session_id)
        data == SessionRecord(session_id, sd1[session_id])
    IN  CASE io = "open_fails" ->
                [sd |-> sd1, fl |-> fl, result |-> "save_failed"]
          [] io = "write_fails" ->
                [sd |-> sd1,
                 fl |-> [fl EXCEPT ![session_id] = Garbage],
                 result |-> "save_failed"]
          [] io = "ok" ->
                [sd |-> sd1,
                 fl |-> [fl EXCEPT ![session_id] = JsonFile(json_dump(data))],
                 result |-> IF HasLen(sd1[session_id].conversation_log)
                            THEN "saved" ELSE "save_failed"]

\* load_session reading the key of the in-memory dict, not of the record
load_session_wrong_key(sd, fl, session_id, io) ==
    IF fl[session_id] = NoFile
    THEN [sd |-> sd, result |-> "not_found"]
    ELSE IF io = "read_fails" \/ fl[session_id] = Garbage
    THEN [sd |-> sd, result |-> "load_failed"]
    ELSE LET data == json_load(fl[session_id].x) IN
         IF data.t # "dict"
         THEN [sd |-> sd, result |-> "load_failed"]
         ELSE LET loaded ==
                    [onboarding_state |-> DictGet(data, "onboarding_data", EmptyOnboarding),
                     conversation_log |-> DictGet(data, "conversation_log", PyList(<<>>))]
              IN  [sd |-> SetSession(sd, session_id, loaded),
                   result |-> IF HasLen(loaded.conversation_log)
                              THEN "loaded" ELSE "load_failed"]

\* load_session creating the session when there is no file
load_session_creating(sd, fl, session_id, io) ==
    IF fl[session_id] = NoFile
    THEN [sd |-> get_session_data(sd, session_id), result |-> "not_found"]
    ELSE IF io = "read_fails" \/ fl[session_id] = Garbage
    THEN [sd |-> sd, result |-> "load_failed"]
    ELSE LET data == json_load(fl[session_id].x) IN
         IF data.t # "dict"
         THEN [sd |-> sd, result |-> "load_failed"]
         ELSE LET loaded ==
                    [onboarding_state |-> DictGet(data, "onboarding_data", EmptyOnboarding),
                     conversation_log |-> DictGet(data, "conversation", PyList(<<>>))]
              IN  [sd |-> SetSession(sd, session_id, loaded),
                   result |-> IF HasLen(loaded.conversation_log)
                              THEN "loaded" ELSE "load_failed"]

\* load_session: the store and the result afterwards
load_session(sd, fl, session_id, io) ==
    IF fl[session_id] = NoFile
    THEN [sd |-> sd, result |-> "not_found"]
    ELSE IF io = "read_fails" \/ fl[session_id] = Garbage
    THEN [sd |-> sd, result |-> "load_failed"]
    ELSE LET data == json_load(fl[session_id].x) IN
         IF data.t # "dict"
         THEN [sd |-> sd, result |-> "load_failed"]
         ELSE LET loaded ==
                    [onboarding_state |-> DictGet(data, "onboarding_data", EmptyOnboarding),
                     conversation_log |-> DictGet(data, "conversation", PyList(<<>>))]
              IN  [sd |-> SetSession(sd, session_id, loaded),
                   result |-> IF HasLen(loaded.conversation_log)
                              THEN "loaded" ELSE "load_failed"]

\* reset_session: the store, the directory and the result afterwards
reset_session(sd, fl, session_id, io) ==
    LET saved == save_session(SetSession(sd, session_id, NewSession), fl, session_id, io)
    IN  [sd |-> saved.sd, fl |-> saved.fl, result |-> "reset", saved |-> saved.result]

(***************************************************************************)
(* Validation and storage.                                                 *)
(***************************************************************************)
\* `field in onboarding_state` raises TypeError (None and int are no containers)
InRaises(os) == os.t \in {"None", "int"}

\* `field in onboarding_state`: a key of a dict; no element of a list of
\* JSON values and no substring of a JSON string in the records modelled
In(field, os) == os.t = "dict" /\ field \in DOMAIN os.d

\* validate_field on the session of the pointer: the result
validate_field(sd, cur, field, value) ==
    LET os == get_session_data(sd, cur)[cur].onboarding_state IN
    IF InRaises(os) THEN "fault"
    ELSE IF ~In(field, os) THEN "invalid_field"
    ELSE IF UserOnboarding([os.d EXCEPT ![field] = PyStr(value)])
         THEN "valid" ELSE "invalid"

\* store_field trusting the caller to have validated
store_field_unvalidated(sd, cur, field, value) ==
    LET sd1 == get_session_data(sd, cur)
        os == sd1[cur].onboarding_state
    IN  IF InRaises(os) THEN [sd |-> sd1, result |-> "fault"]
        ELSE IF ~In(field, os) THEN [sd |-> sd1, result |-> "invalid_field"]
        ELSE [sd |-> [sd1 EXCEPT ![cur].onboarding_state =
                         PyDict([os.d EXCEPT ![field] = PyStr(value)])],
              result |-> "stored"]

\* store_field bound to the session of an Assistant made earlier
store_field_registered(sd, cur, field, value) ==
    LET reg == IF assistants \ {cur} = {} THEN cur
               ELSE CHOOSE id \in assistants \ {cur} : TRUE
        sd1 == get_session_data(sd, reg)
        os == sd1[reg].onboarding_state
    IN  IF InRaises(os) THEN [sd |-> sd1, result |-> "fault"]
        ELSE IF ~In(field, os) THEN [sd |-> sd1, result |-> "invalid_field"]
        ELSE IF validate_field(sd1, reg, field, value) # "valid"
             THEN [sd |-> sd1, result |-> "rejected"]
             ELSE [sd |-> [sd1 EXCEPT ![reg].onboarding_state =
                              PyDict([os.d EXCEPT ![field] = PyStr(value)])],
                   result |-> "stored"]

\* store_field putting a new dict with the one field in place of the state
store_field_replacing(sd, cur, field, value) ==
    LET sd1 == get_session_data(sd, cur)
        os == sd1[cur].onboarding_state
    IN  IF InRaises(os) THEN [sd |-> sd1, result |-> "fault"]
        ELSE IF ~In(field, os) THEN [sd |-> sd1, result |-> "invalid_field"]
        ELSE IF validate_field(sd1, cur, field, value) # "valid"
             THEN [sd |-> sd1, result |-> "rejected"]
             ELSE [sd |-> [sd1 EXCEPT ![cur].onboarding_state =
                              PyDict([EmptyOnboarding.d EXCEPT
                                         ![field] = PyStr(value)])],
                   result |-> "stored"]

\* store_field suspended at its await while another task moves the pointer:
\* validate_field reads the pointer again and validates against that session
store_field_suspended(sd, cur, field, value) ==
    LET other == CHOOSE k \in Keys : k # cur
        sd1 == get_session_data(sd, cur)
        os == sd1[cur].onboarding_state
        sd2 == get_session_data(sd1, other)
    IN  IF InRaises(os) THEN [sd |-> sd1, result |-> "fault"]
        ELSE IF ~In(field, os) THEN [sd |-> sd1, result |-> "invalid_field"]
        ELSE IF validate_field(sd1, other, field, value) # "valid"
             THEN [sd |-> sd2, result |-> "rejected"]
             ELSE [sd |-> [sd2 EXCEPT ![cur].onboarding_state =
                              PyDict([os.d EXCEPT ![field] = PyStr(value)])],
                   result |-> "stored"]

\* store_field on the session of the pointer: the store and the result
store_field(sd, cur, field, value) ==
    LET sd1 == get_session_data(sd, cur)
        os == sd1[cur].onboarding_state
    IN  IF InRaises(os) THEN [sd |-> sd1, result |-> "fault"]
        ELSE IF ~In(field, os) THEN [sd |-> sd1, result |-> "invalid_field"]
        ELSE IF validate_field(sd1, cur, field, value) # "valid"
             THEN [sd |-> sd1, result |-> "rejected"]
             ELSE [sd |-> [sd1 EXCEPT ![cur].onboarding_state =
                              PyDict([os.d EXCEPT ![field] = PyStr(value)])],
                   result |-> "stored"]

(***************************************************************************)
(* Conversation logging.                                                   *)
(***************************************************************************)
USER == <<"u", "s", "e", "r">>
ASSISTANT == <<"a", "s", "s", "i", "s", "t", "a", "n", "t">>

\* str(datetime.now()) at time n
Timestamp(n) == <<Digits[n + 1]>>

Entry(speaker, text, n) ==
    PyDict([k \in {"speaker", "text", "timestamp"} |->
        CASE k = "speaker" -> PyStr(speaker)
          [] k = "text" -> PyStr(text)
          [] k = "timestamp" -> PyStr(Timestamp(n))])

\* conversation_log.append(entry) raises AttributeError unless it is a list
CanAppend(cl) == cl.t = "list"

\* log_message_with_session logging into the session of the pointer
log_message_with_session_pointer(sd, session_id, speaker, text, now) ==
    LET sd1 == get_session_data(sd, current_session_id)
        cl == sd1[current_session_id].conversation_log
    IN  IF ~CanAppend(cl)
        THEN [sd |-> sd1, result |-> "log_failed"]
        ELSE [sd |-> [sd1 EXCEPT ![current_session_id].conversation_log =
                         PyList(Append(cl.l, Entry(speaker, text, now)))],
              result |-> "logged"]

\* log_message_with_session (log_message passes the pointer): the store
\* and the result
log_message_with_session(sd, session_id, speaker, text, now) ==
    LET sd1 == get_session_data(sd, session_id)
        cl == sd1[session_id].conversation_log
    IN  IF ~CanAppend(cl)
        THEN [sd |-> sd1, result |-> "log_failed"]
        ELSE [sd |-> [sd1 EXCEPT ![session_id].conversation_log =
                         PyList(Append(cl.l, Entry(speaker, text, now)))],
              result |-> "logged"]

\* the entries log_conversation_turn appends, in order
TurnEntries(user_message, assistant_response, now) ==
    LET u == IF Strip(user_message) # <<>>
             THEN <<Entry(USER, Strip(user_message), now)>> ELSE <<>>
        a == IF Strip(assistant_response) # <<>>
             THEN <<Entry(ASSISTANT, Strip(assistant_response), now + Len(u))>>
             ELSE <<>>
    IN  u \o a

\* log_conversation_turn saving before it appends
log_conversation_turn_save_first(sd, fl, cur, user_message, assistant_response, now, io) ==
    LET saved == save_session(sd, fl, cur, io)
        cl == saved.sd[cur].conversation_log
        new == TurnEntries(user_message, assistant_response, now)
    IN  IF new # <<>> /\ ~CanAppend(cl)
        THEN [sd |-> saved.sd, fl |-> saved.fl, result |-> "turn_failed",
              saved |-> saved.result]
        ELSE [sd |-> IF new = <<>> THEN saved.sd
                     ELSE [saved.sd EXCEPT ![cur].conversation_log =
                              PyList(cl.l \o new)],
              fl |-> saved.fl, result |-> "turn_logged", saved |-> saved.result]

\* log_conversation_turn: the store, the directory and the result
log_conversation_turn(sd, fl, cur, user_message, assistant_response, now, io) ==
    LET sd1 == get_session_data(sd, cur)
        cl == sd1[cur].conversation_log
        new == TurnEntries(user_message, assistant_response, now)
    IN  IF new # <<>> /\ ~CanAppend(cl)
        THEN [sd |-> sd1, fl |-> fl, result |-> "turn_failed", saved |-> "not_called"]
        ELSE LET sd2 == IF new = <<>> THEN sd1
                        ELSE [sd1 EXCEPT ![cur].conversation_log = PyList(cl.l \o new)]
                 saved == save_session(sd2, fl, cur, io)
             IN  [sd |-> saved.sd, fl |-> saved.fl, result |-> "turn_logged",
                  saved |-> saved.result]

\* force_save_session: the store, the directory and the result
force_save_session(sd, fl, cur, io) ==
    LET saved == save_session(sd, fl, cur, io)
    IN  [sd |-> saved.sd, fl |-> saved.fl, result |-> "force_saved",
         saved |-> saved.result]

(***************************************************************************)
(* The hooks of an Assistant.                                              *)
(***************************************************************************)
AGENT == <<"a", "g", "e", "n", "t">>

\* sub in s
Contains(sub, s) ==
    \E i \in 0..(Len(s) - Len(sub)) : SubSeq(s, i + 1, i + Len(sub)) = sub

\* the speaker on_message gives a participant
message_speaker(participant) ==
    IF \/ participant.is_local
       \/ Contains(AGENT, Lower(participant.identity))
       \/ Contains(ASSISTANT, Lower(participant.identity))
    THEN ASSISTANT ELSE USER

\* the speaker on_participant_speech_end gives a participant
speech_speaker(participant) ==
    IF participant.is_local \/ Contains(AGENT, Lower(participant.identity))
    THEN ASSISTANT ELSE USER

\* a hook that logs with log_message, into the session of the pointer
log_and_save_current(sd, fl, session_id, speaker, text, now, io) ==
    LET logged == log_message_with_session(sd, current_session_id, speaker,
                                           text, now)
        saved == save_session(logged.sd, fl, session_id, io)
    IN  [sd |-> saved.sd, fl |-> saved.fl, logged |-> logged.result,
         result |-> saved.result]

\* log_message_with_session(self.session_id, speaker, text), then
\* save_session(self.session_id): the store, the directory, the two results
log_and_save(sd, fl, session_id, speaker, text, now, io) ==
    LET logged == log_message_with_session(sd, session_id, speaker, text, now)
        saved == save_session(logged.sd, fl, session_id, io)
    IN  [sd |-> saved.sd, fl |-> saved.fl, logged |-> logged.result,
         result |-> saved.result]

\* on_message returns at once unless the message is final and not blank
on_message_logs(message, is_final) == is_final /\ Strip(message) # <<>>

(***************************************************************************)
(* Queries.                                                                *)
(***************************************************************************)
\* onboarding_state.items() raises AttributeError unless it is a dict
ItemsRaises(os) == os.t # "dict"

\* [k for k, v in onboarding_state.items() if not v]
missing_fields(os) == {k \in DOMAIN os.d : ~Truthy(os.d[k])}

is_onboarding_complete(sd, cur) ==
    LET os == get_session_data(sd, cur)[cur].onboarding_state IN
    IF ItemsRaises(os) THEN "fault"
    ELSE IF missing_fields(os) # {} THEN "incomplete" ELSE "complete"

get_summary(sd, cur) ==
    LET os == get_session_data(sd, cur)[cur].onboarding_state IN
    IF ItemsRaises(os) THEN "fault"
    ELSE IF missing_fields(os) = DOMAIN os.d THEN "no_data" ELSE "summary"

get_current_state(sd, cur) ==
    LET os == get_session_data(sd, cur)[cur].onboarding_state IN
    IF ItemsRaises(os) THEN "fault" ELSE "state"

get_conversation_history(sd, cur) ==
    LET cl == get_session_data(sd, cur)[cur].conversation_log IN
    IF ~Truthy(cl) THEN "no_history"
    ELSE IF cl.t = "list" /\ \A i \in 1..Len(cl.l) : cl.l[i].t = "dict"
         THEN "history" ELSE "history_failed"

(***************************************************************************)
(* Inputs.                                                                 *)
(***************************************************************************)
InputFields == Fields \cup {"age"}

\* per field, a value its rule accepts and one it rejects
InputValues(field) ==
    CASE field = "name" -> { <<"A", "l">>, <<"A">> }
      [] field = "email" -> { <<"a", "@", "b", ".", "c", "o">>, <<"a", "b">> }
      [] field = "phone" -> { <<"+", "1", "2">>, <<"0", "1", "2">> }
      [] field = "country" ->
            { <<"C", "a", "n", "a", "d", "a">>,
              <<"A", "t", "l", "a", "n", "t", "i", "s">> }
      [] OTHER -> { <<"4", "2">> }

\* a speaker and a text: one with a text to log, one with a blank text
LogInputs == { <<USER, <<"h", "i">>>>, <<ASSISTANT, <<" ">>>> }

\* a speaker that is neither user nor assistant
OtherSpeakerInputs == { << <<"b", "o", "t">>, <<"h", "i">> >> }
TurnTexts == { <<" ", "o", "k", " ">>, <<>> }

\* the participants of the room: the agent itself, a remote participant
\* whose identity names an assistant, a caller
LocalParticipant == [is_local |-> TRUE, identity |-> <<>>]
RemoteAssistant ==
    [is_local |-> FALSE,
     identity |-> <<"A", "s", "s", "i", "s", "t", "a", "n", "t">>]
RemoteUser == [is_local |-> FALSE, identity |-> <<"b", "o", "b">>]

SpeechParticipants == {LocalParticipant, RemoteUser}
HookTexts == { <<"h", "i">> }

\* message, participant, is_final
MessageInputs ==
    { << <<"h", "i">>, RemoteAssistant, TRUE >>,
      << <<"h", "i">>, RemoteUser, TRUE >>,
      << <<"h", "i">>, RemoteUser, FALSE >>,
      << <<" ">>, RemoteUser, TRUE >> }

\* records that save_session did not write: keys or fields missing, values
\* of another shape, a value no rule accepts
OnboardingWith(name) ==
    JObj([f \in Fields |-> IF f = "name" THEN JStr(name) ELSE JNull])

ExternalRecords ==
    { JObj("session_id" :> JStr(<<"A">>)),
      JObj(("onboarding_data" :> JObj("name" :> JStr(<<"A", "l">>)))
           @@ ("conversation" :> JArr(<<>>))),
      JObj(("onboarding_data" :> JNull) @@ ("conversation" :> JArr(<<>>))),
      JObj(("onboarding_data" :> OnboardingWith(<<"A", "l">>))
           @@ ("conversation" :> JNull)),
      JObj(("onboarding_data" :> OnboardingWith(<<"A">>))
           @@ ("conversation" :> JArr(<<>>))),
      JArr(<<>>) }

ExternalFiles == {JsonFile(r) : r \in ExternalRecords}

\* no successful save wrote the file that is there
NoSnapshot == [onboarding_state |-> PyNone, conversation_log |-> PyNone]

\* the snapshots after a call of save_session(session_id) that returned
\* `saved` and left the directory fl
Snapshots(fl, session_id, session_data, saved) ==
    IF saved = "saved" THEN [snapshot EXCEPT ![session_id] = session_data]
    ELSE IF fl[session_id] # files[session_id]
         THEN [snapshot EXCEPT ![session_id] = NoSnapshot]
         ELSE snapshot

(***************************************************************************)
(* The state machine.                                                      *)
(***************************************************************************)
Init ==
    /\ sessions_data = [k \in {} |-> NewSession]
    /\ current_session_id = ""
    /\ files = [k \in Keys |-> NoFile]
    /\ assistants = {}
    /\ clock = 0
    /\ nops = 0
    /\ last_op = [op |-> "init", id |-> "", key |-> "", a |-> <<>>, b |-> <<>>,
                  result |-> "none", io |-> "none"]
    /\ snapshot = [k \in Keys |-> NoSnapshot]

\* the behaviour has steps left
CanStep == nops < MaxOps

\* the call that was made, what it returned and how its file I/O went
ReturnsAfterIO(op, id, key, a, b, result, io) ==
    /\ last_op' = [op |-> op, id |-> id, key |-> key, a |-> a, b |-> b,
                   result |-> result, io |-> io]
    /\ nops' = nops + 1

\* a call that opens no file
Returns(op, id, key, a, b, result) ==
    ReturnsAfterIO(op, id, key, a, b, result, "none")

\* Assistant(session_id): the only caller of set_current_session_id
SetCurrentSessionId(session_id) ==
    /\ CanStep
    /\ current_session_id' = session_id
    /\ assistants' = assistants \cup {session_id}
    /\ Returns("set_current_session_id", session_id, "", <<>>, <<>>, "none")
    /\ UNCHANGED <<sessions_data, files, clock, snapshot>>

ValidateField(field, value) ==
    /\ CanStep
    /\ sessions_data' = get_session_data(sessions_data, current_session_id)
    /\ Returns("validate_field", current_session_id, field, value, <<>>,
               validate_field(sessions_data, current_session_id, field, value))
    /\ UNCHANGED <<current_session_id, files, assistants, clock, snapshot>>

StoreField(field, value) ==
    LET r == store_field(sessions_data, current_session_id, field, value) IN
    /\ CanStep
    /\ sessions_data' = r.sd
    /\ Returns("store_field", current_session_id, field, value, <<>>, r.result)
    /\ UNCHANGED <<current_session_id, files, assistants, clock, snapshot>>

LogMessage(speaker, text) ==
    LET r == log_message_with_session(sessions_data, current_session_id,
                                      speaker, text, clock) IN
    /\ CanStep
    /\ clock < MaxClock
    /\ sessions_data' = r.sd
    /\ clock' = clock + 1
    /\ Returns("log_message", current_session_id, "", speaker, text, r.result)
    /\ UNCHANGED <<current_session_id, files, assistants, snapshot>>

LogMessageWithSession(session_id, speaker, text) ==
    LET r == log_message_with_session(sessions_data, session_id, speaker, text, clock) IN
    /\ CanStep
    /\ clock < MaxClock
    /\ sessions_data' = r.sd
    /\ clock' = clock + 1
    /\ Returns("log_message_with_session", session_id, "", speaker, text, r.result)
    /\ UNCHANGED <<current_session_id, files, assistants, snapshot>>

LogConversationTurn(user_message, assistant_response, io) ==
    LET n == Len(TurnEntries(user_message, assistant_response, clock))
        r == log_conversation_turn(sessions_data, files, current_session_id,
                                   user_message, assistant_response, clock, io)
    IN  /\ CanStep
        /\ clock + n <= MaxClock
        /\ sessions_data' = r.sd
        /\ files' = r.fl
        /\ clock' = clock + n
        /\ snapshot' = Snapshots(r.fl, current_session_id,
                                 r.sd[current_session_id], r.saved)
        /\ ReturnsAfterIO("log_conversation_turn", current_session_id, "",
                          user_message, assistant_response, r.result,
                          IF r.saved = "not_called" THEN "none" ELSE io)
        /\ UNCHANGED <<current_session_id, assistants>>

SaveSession(session_id, io) ==
    LET r == save_session(sessions_data, files, session_id, io) IN
    /\ CanStep
    /\ sessions_data' = r.sd
    /\ files' = r.fl
    /\ snapshot' = Snapshots(r.fl, session_id, r.sd[session_id], r.result)
    /\ ReturnsAfterIO("save_session", session_id, "", <<>>, <<>>, r.result, io)
    /\ UNCHANGED <<current_session_id, assistants, clock>>

SaveCurrentSession(io) ==
    LET r == save_session(sessions_data, files, current_session_id, io) IN
    /\ CanStep
    /\ sessions_data' = r.sd
    /\ files' = r.fl
    /\ snapshot' = Snapshots(r.fl, current_session_id,
                             r.sd[current_session_id], r.result)
    /\ ReturnsAfterIO("save_current_session", current_session_id, "", <<>>, <<>>, r.result, io)
    /\ UNCHANGED <<current_session_id, assistants, clock>>

ForceSaveSession(io) ==
    LET r == force_save_session(sessions_data, files, current_session_id, io) IN
    /\ CanStep
    /\ sessions_data' = r.sd
    /\ files' = r.fl
    /\ snapshot' = Snapshots(r.fl, current_session_id,
                             r.sd[current_session_id], r.saved)
    /\ ReturnsAfterIO("force_save_session", current_session_id, "", <<>>, <<>>, r.result, io)
    /\ UNCHANGED <<current_session_id, assistants, clock>>

LoadSession(session_id, io) ==
    LET r == load_session(sessions_data, files, session_id, io) IN
    /\ CanStep
    /\ sessions_data' = r.sd
    /\ ReturnsAfterIO("load_session", session_id, "", <<>>, <<>>, r.result,
                      IF r.result = "not_found" THEN "none" ELSE io)
    /\ UNCHANGED <<current_session_id, files, assistants, clock, snapshot>>

ResetSession(session_id, io) ==
    LET r == reset_session(sessions_data, files, session_id, io) IN
    /\ CanStep
    /\ sessions_data' = r.sd
    /\ files' = r.fl
    /\ snapshot' = Snapshots(r.fl, session_id, r.sd[session_id], r.saved)
    /\ ReturnsAfterIO("reset_session", session_id, "", <<>>, <<>>, r.result, io)
    /\ UNCHANGED <<current_session_id, assistants, clock>>

ResetCurrentSession(io) ==
    LET r == reset_session(sessions_data, files, current_session_id, io) IN
    /\ CanStep
    /\ sessions_data' = r.sd
    /\ files' = r.fl
    /\ snapshot' = Snapshots(r.fl, current_session_id,
                             r.sd[current_session_id], r.saved)
    /\ ReturnsAfterIO("reset_current_session", current_session_id, "", <<>>, <<>>, r.result, io)
    /\ UNCHANGED <<current_session_id, assistants, clock>>

IsOnboardingComplete ==
    /\ CanStep
    /\ sessions_data' = get_session_data(sessions_data, current_session_id)
    /\ Returns("is_onboarding_complete", current_session_id, "", <<>>, <<>>,
               is_onboarding_complete(sessions_data, current_session_id))
    /\ UNCHANGED <<current_session_id, files, assistants, clock, snapshot>>

GetSummary ==
    /\ CanStep
    /\ sessions_data' = get_session_data(sessions_data, current_session_id)
    /\ Returns("get_summary", current_session_id, "", <<>>, <<>>,
               get_summary(sessions_data, current_session_id))
    /\ UNCHANGED <<current_session_id, files, assistants, clock, snapshot>>

GetCurrentState ==
    /\ CanStep
    /\ sessions_data' = get_session_data(sessions_data, current_session_id)
    /\ Returns("get_current_state", current_session_id, "", <<>>, <<>>,
               get_current_state(sessions_data, current_session_id))
    /\ UNCHANGED <<current_session_id, files, assistants, clock, snapshot>>

GetConversationHistory ==
    /\ CanStep
    /\ sessions_data' = get_session_data(sessions_data, current_session_id)
    /\ Returns("get_conversation_history", current_session_id, "", <<>>, <<>>,
               get_conversation_history(sessions_data, current_session_id))
    /\ UNCHANGED <<current_session_id, files, assistants, clock, snapshot>>

\* a hook of the Assistant of session_id logs text and saves the session
LogAndSave(op, session_id, speaker, text, io) ==
    LET r == log_and_save(sessions_data, files, session_id, speaker, text,
                          clock, io) IN
    /\ clock < MaxClock
    /\ sessions_data' = r.sd
    /\ files' = r.fl
    /\ clock' = clock + 1
    /\ snapshot' = Snapshots(r.fl, session_id, r.sd[session_id], r.result)
    /\ ReturnsAfterIO(op, session_id, "", speaker, text, r.result, io)
    /\ UNCHANGED <<current_session_id, assistants>>

OnMessage(session_id, message, participant, is_final, io) ==
    /\ CanStep
    /\ session_id \in assistants
    /\ IF on_message_logs(message, is_final)
       THEN LogAndSave("on_message", session_id, message_speaker(participant),
                       message, io)
       ELSE /\ Returns("on_message", session_id, "", <<>>, message, "ignored")
            /\ UNCHANGED <<sessions_data, current_session_id, files,
                           assistants, clock, snapshot>>

OnParticipantSpeechEnd(session_id, participant, text, io) ==
    /\ CanStep
    /\ session_id \in assistants
    /\ LogAndSave("on_participant_speech_end", session_id,
                  speech_speaker(participant), text, io)

OnAgentSpeechEnd(session_id, text, io) ==
    /\ CanStep
    /\ session_id \in assistants
    /\ LogAndSave("on_agent_speech_end", session_id, ASSISTANT, text, io)

OnUserSpeechEnd(session_id, text, io) ==
    /\ CanStep
    /\ session_id \in assistants
    /\ LogAndSave("on_user_speech_end", session_id, USER, text, io)

\* the process exits and starts again: the module globals are initial, the
\* directory is kept
Restart ==
    /\ CanStep
    /\ sessions_data' = [k \in {} |-> NewSession]
    /\ current_session_id' = ""
    /\ assistants' = {}
    /\ Returns("restart", "", "", <<>>, <<>>, "none")
    /\ UNCHANGED <<files, clock, snapshot>>

\* something other than save_session writes the file of a session
ExternalWrite(session_id, content) ==
    /\ CanStep
    /\ files' = [files EXCEPT ![session_id] = content]
    /\ snapshot' = [snapshot EXCEPT ![session_id] = NoSnapshot]
    /\ Returns("external_write", session_id, "", <<>>, <<>>, "none")
    /\ UNCHANGED <<sessions_data, current_session_id, assistants, clock>>

\* the tools and the process, with no file written from outside
NextClosed ==
    \/ \E id \in SessionIds : SetCurrentSessionId(id)
    \/ \E f \in InputFields : \E v \in InputValues(f) : ValidateField(f, v)
    \/ \E f \in InputFields : \E v \in InputValues(f) : StoreField(f, v)
    \/ \E m \in LogInputs \cup OtherSpeakerInputs : LogMessage(m[1], m[2])
    \/ \E id \in SessionIds, m \in LogInputs :
          LogMessageWithSession(id, m[1], m[2])
    \/ \E u \in TurnTexts, a \in TurnTexts, io \in SaveIO :
          LogConversationTurn(u, a, io)
    \/ \E id \in SessionIds, io \in SaveIO : SaveSession(id, io)
    \/ \E io \in SaveIO : SaveCurrentSession(io)
    \/ \E io \in SaveIO : ForceSaveSession(io)
    \/ \E id \in Keys, io \in LoadIO : LoadSession(id, io)
    \/ \E id \in SessionIds, io \in SaveIO : ResetSession(id, io)
    \/ \E io \in SaveIO : ResetCurrentSession(io)
    \/ IsOnboardingComplete
    \/ GetSummary
    \/ GetCurrentState
    \/ GetConversationHistory
    \/ Restart

Next ==
    \/ NextClosed
    \/ \E id \in Keys, c \in ExternalFiles : ExternalWrite(id, c)

Spec == Init /\ [][Next]_vars

\* the tools and the process together with the hooks the runtime calls on
\* the Assistants, with no file written from outside
NextAgents ==
    \/ NextClosed
    \/ \E id \in SessionIds, m \in MessageInputs, io \in SaveIO :
          OnMessage(id, m[1], m[2], m[3], io)
    \/ \E id \in SessionIds, p \in SpeechParticipants, tx \in HookTexts,
          io \in SaveIO : OnParticipantSpeechEnd(id, p, tx, io)
    \/ \E id \in SessionIds, tx \in HookTexts, io \in SaveIO :
          OnAgentSpeechEnd(id, tx, io)
    \/ \E id \in SessionIds, tx \in HookTexts, io \in SaveIO :
          OnUserSpeechEnd(id, tx, io)

SpecAgents == Init /\ [][NextAgents]_vars

\* every file is one that save_session wrote
SpecClosed == Init /\ [][NextClosed]_vars

(***************************************************************************)
(* Properties.                                                             *)
(***************************************************************************)
\* the onboarding state and the log an operation on id finds
OnboardingOf(sd, id) == get_session_data(sd, id)[id].onboarding_state
LogOf(sd, id) == get_session_data(sd, id)[id].conversation_log

Absent == [t |-> "absent"]
FieldValue(os, f) == IF In(f, os) THEN os.d[f] ELSE Absent

\* C1: store_field(f, v) on one of the four fields reports success exactly
\* when validate_field(f, v) reports valid in the state it is called in; on
\* success field f of the current session is v afterwards, on rejection
\* field f of the current session keeps its value.
C1_StoreIffValid ==
    [][ (last_op'.op = "store_field" /\ last_op'.key \in Fields) =>
        LET cur == current_session_id
            f == last_op'.key
            v == last_op'.a
            before == OnboardingOf(sessions_data, cur)
            after == sessions_data'[cur].onboarding_state
        IN  /\ (last_op'.result = "stored")
                 <=> (validate_field(sessions_data, cur, f, v) = "valid")
            /\ last_op'.result = "stored" => FieldValue(after, f) = PyStr(v)
            /\ last_op'.result # "stored" =>
                 FieldValue(after, f) = FieldValue(before, f) ]_vars

\* a store into a session an Assistant made current succeeded
C1_Witness ==
    /\ last_op.op = "store_field"
    /\ last_op.result = "stored"
    /\ current_session_id \in SessionIds
    /\ sessions_data[current_session_id].onboarding_state.d[last_op.key]
         = PyStr(last_op.a)

\* per field, the strings of the model that the rule of the field accepts
Accepted ==
    [f \in Fields |->
        {v \in UNION {InputValues(g) : g \in InputFields} : RuleOK(f, v)}]

\* C2: when every file is one that save_session wrote, every field of every
\* session is null or a string that its field's rule accepts.
C2_FieldsValidated ==
    \A id \in DOMAIN sessions_data :
        LET os == sessions_data[id].onboarding_state IN
        /\ os.t = "dict"
        /\ \A f \in Fields \cap DOMAIN os.d :
              \/ os.d[f] = PyNone
              \/ os.d[f].t = "str" /\ os.d[f].s \in Accepted[f]

\* a session with a stored field was loaded from its file
C2_Witness ==
    /\ last_op.op = "load_session"
    /\ last_op.result = "loaded"
    /\ \E f \in Fields :
          sessions_data[last_op.id].onboarding_state.d[f] # PyNone

C4_ResetPersisted ==
    (last_op.op = "reset_session" /\ last_op.result = "reset") =>
        /\ last_op.id \in DOMAIN sessions_data
        /\ sessions_data[last_op.id] = NewSession
        /\ LET l == load_session(sessions_data, files, last_op.id, "ok") IN
           l.result = "loaded" /\ l.sd[last_op.id] = NewSession

\* a key or a field of the record is missing
RecordIsPartial(file) ==
    /\ file.f = "json"
    /\ file.x.j = "object"
    /\ \/ "onboarding_data" \notin DOMAIN file.x.m
       \/ "conversation" \notin DOMAIN file.x.m
       \/ /\ "onboarding_data" \in DOMAIN file.x.m
          /\ file.x.m["onboarding_data"].j = "object"
          /\ ~(Fields \subseteq DOMAIN file.x.m["onboarding_data"].m)

\* C5: after load_session(id) succeeded on a record with a key or a field
\* missing, the session has all four fields (validate_field and store_field
\* know each of them) and its log is a list.
C5_LoadDefaultsMissing ==
    (/\ last_op.op = "load_session"
     /\ last_op.result = "loaded"
     /\ RecordIsPartial(files[last_op.id]))
    => /\ \A f \in Fields : In(f, sessions_data[last_op.id].onboarding_state)
       /\ sessions_data[last_op.id].conversation_log.t = "list"

\* C6: a load_session that returns the failure result leaves the store as
\* it was.
C6_FailedLoadUnchanged ==
    [][ (last_op'.op = "load_session" /\ last_op'.result = "load_failed")
        => sessions_data' = sessions_data ]_vars

\* C7: load_session(id) with no file for id returns not-found and changes
\* neither the store (no session is created) nor the directory nor the
\* pointer.
C7_LoadNotFound ==
    [][ (last_op'.op = "load_session" /\ files[last_op'.id] = NoFile) =>
        /\ last_op'.result = "not_found"
        /\ sessions_data' = sessions_data
        /\ files' = files
        /\ current_session_id' = current_session_id ]_vars

\* not-found for an id that was never used, beside a session in use
C7_Witness ==
    /\ last_op.op = "load_session"
    /\ last_op.result = "not_found"
    /\ last_op.id \notin DOMAIN sessions_data
    /\ DOMAIN sessions_data # {}

\* C8: no public operation ends in an unhandled exception.
C8_NoFault == last_op.result # "fault"

\* C9: force_save_session, save_current_session, reset_session and
\* log_conversation_turn confirm success only when the file of the session
\* holds the record of the session.
C9_SuccessMeansWritten ==
    (/\ last_op.op \in {"force_save_session", "save_current_session",
                        "reset_session", "log_conversation_turn"}
     /\ last_op.result \in {"force_saved", "saved", "reset", "turn_logged"})
    => files[last_op.id] =
         JsonFile(json_dump(SessionRecord(last_op.id, sessions_data[last_op.id])))

\* no entry of a log has a text that is empty after trimming
NoBlankEntry(sd) ==
    \A id \in DOMAIN sd :
        sd[id].conversation_log.t = "list" =>
            \A i \in 1..Len(sd[id].conversation_log.l) :
                LET e == sd[id].conversation_log.l[i] IN
                (e.t = "dict" /\ "text" \in DOMAIN e.d /\ e.d["text"].t = "str")
                    => Strip(e.d["text"].s) # <<>>

\* C10: log_message and log_message_with_session append nothing for a text
\* that is empty after trimming and one entry with the speaker and the text
\* otherwise; no log has an entry whose text is empty after trimming.
C10_BlankTextNotLogged ==
    [][ (/\ last_op'.op \in {"log_message", "log_message_with_session"}
         /\ LogOf(sessions_data, last_op'.id).t = "list") =>
        LET before == LogOf(sessions_data, last_op'.id).l
            after == sessions_data'[last_op'.id].conversation_log.l
        IN  /\ Strip(last_op'.b) = <<>> => after = before
            /\ Strip(last_op'.b) # <<>> =>
                 /\ Len(after) = Len(before) + 1
                 /\ SubSeq(after, 1, Len(before)) = before
                 /\ after[Len(after)].d["speaker"] = PyStr(last_op'.a)
                 /\ after[Len(after)].d["text"].s \in {last_op'.b, Strip(last_op'.b)}
            /\ NoBlankEntry(sessions_data') ]_vars

\* the fields of the four that have no value in os
NullFields(os) == {f \in Fields : FieldValue(os, f) \in {PyNone, Absent}}

\* C11: is_onboarding_complete reports complete exactly when all four
\* fields of the current session are non-null, and otherwise reports as
\* missing exactly the fields that are null.
C11_CompleteIffAllFour ==
    (last_op.op = "is_onboarding_complete" /\ last_op.result # "fault") =>
        LET os == sessions_data[last_op.id].onboarding_state IN
        /\ (last_op.result = "complete") <=> (NullFields(os) = {})
        /\ last_op.result = "incomplete" => missing_fields(os) = NullFields(os)

ExplicitOps ==
    {"log_message_with_session", "save_session", "load_session", "reset_session"}

\* the session the store holds under k, if any
SessionIn(sd, k) == IF k \in DOMAIN sd THEN sd[k] ELSE Absent

\* what the explicit-identifier call op(id, ...) does in a process that has
\* nothing but the session and the record of id
ExplicitAlone(op, id, a, b, io, sd, fl, now) ==
    LET sd0 == [k \in DOMAIN sd \cap {id} |-> sd[k]]
        fl0 == [k \in Keys |-> IF k = id THEN fl[k] ELSE NoFile]
    IN  CASE op = "log_message_with_session" ->
                LET r == log_message_with_session(sd0, id, a, b, now)
                IN  [session |-> SessionIn(r.sd, id), file |-> fl0[id]]
          [] op = "save_session" ->
                LET r == save_session(sd0, fl0, id, io)
                IN  [session |-> SessionIn(r.sd, id), file |-> r.fl[id]]
          [] op = "load_session" ->
                LET r == load_session(sd0, fl0, id, io)
                IN  [session |-> SessionIn(r.sd, id), file |-> fl0[id]]
          [] op = "reset_session" ->
                LET r == reset_session(sd0, fl0, id, io)
                IN  [session |-> SessionIn(r.sd, id), file |-> r.fl[id]]

\* C12: an explicit-identifier operation on id leaves the session and the
\* record of every other id and the pointer unchanged, whatever the pointer
\* is, and does to the session and the record of id what it does when no
\* other session exists.
C12_ExplicitOpsIsolated ==
    [][ last_op'.op \in ExplicitOps =>
        LET id == last_op'.id
            alone == ExplicitAlone(last_op'.op, id, last_op'.a, last_op'.b,
                                   last_op'.io, sessions_data, files, clock)
        IN  /\ \A k \in Keys \ {id} :
                  /\ SessionIn(sessions_data', k) = SessionIn(sessions_data, k)
                  /\ files'[k] = files[k]
            /\ current_session_id' = current_session_id
            /\ SessionIn(sessions_data', id) = alone.session
            /\ files'[id] = alone.file ]_vars

\* an entry is logged for A while the pointer names B, whose session has a
\* logged entry and a record
C12_Witness ==
    /\ last_op.op = "log_message_with_session"
    /\ last_op.result = "logged"
    /\ last_op.id = "A"
    /\ current_session_id = "B"
    /\ "B" \in DOMAIN sessions_data
    /\ sessions_data["B"].conversation_log # PyList(<<>>)
    /\ files["B"].f = "json"
    /\ sessions_data["A"].conversation_log # PyList(<<>>)

\* the speaker and the text of the entries of a list of entries
SpeakerAndText(entries) ==
    [i \in 1..Len(entries) |-> <<entries[i].d["speaker"], entries[i].d["text"]>>]

\* the speaker and trimmed text log_conversation_turn is to log for a message
Logged(speaker, message) ==
    IF Strip(message) # <<>>
    THEN << <<PyStr(speaker), PyStr(Strip(message))>> >> ELSE <<>>

\* the record save_session writes for the session of id in sd
RecordOf(sd, id) == JsonFile(json_dump(SessionRecord(id, sd[id])))

FreshVerdict(field, value) ==
    validate_field([k \in {} |-> NewSession], "", field, value)

\* C14: the valid/invalid verdict of validate_field(f, v) on one of the
\* four fields is the verdict it gives in a fresh session, whatever the
\* other fields of the current session hold.
C14_VerdictOnlyFieldValue ==
    (/\ last_op.op = "validate_field"
     /\ last_op.key \in Fields
     /\ last_op.result \in {"valid", "invalid"})
    => last_op.result = FreshVerdict(last_op.key, last_op.a)

\* C15: after store_field, log_message, log_message_with_session,
\* log_conversation_turn or reset_session changed a session and no file I/O
\* failed, the record of that session is the dump of the session in memory.
C15_PersistedAfterMutation ==
    (/\ last_op.op \in {"store_field", "log_message", "log_message_with_session",
                        "log_conversation_turn", "reset_session"}
     /\ last_op.result \in {"stored", "logged", "turn_logged", "reset"}
     /\ last_op.io \in {"none", "ok"})
    => files[last_op.id] = RecordOf(sessions_data, last_op.id)

\* C16: no step other than a reset of the session (or the exit of the
\* process) removes, reorders or alters an entry of a conversation log: the
\* log before the step is a prefix of the log after it.
C16_LogAppendOnly ==
    [][ last_op'.op \notin {"reset_session", "reset_current_session", "restart"}
        => \A k \in DOMAIN sessions_data :
              LET before == sessions_data[k].conversation_log
                  after == sessions_data'[k].conversation_log
              IN  before.t = "list" =>
                    /\ after.t = "list"
                    /\ Len(after.l) >= Len(before.l)
                    /\ SubSeq(after.l, 1, Len(before.l)) = before.l ]_vars

ZeroArgOps ==
    {"validate_field", "store_field", "log_message", "log_conversation_turn",
     "save_current_session", "force_save_session", "reset_current_session",
     "is_onboarding_complete", "get_summary", "get_current_state",
     "get_conversation_history"}

\* what the zero-argument call op(...) does to the session and the record
\* of cur, and what it returns, when it acts on cur
ZeroArgOn(op, cur, key, a, b, io, sd, fl, now) ==
    LET got == get_session_data(sd, cur) IN
    CASE op = "validate_field" ->
            [session |-> got[cur], file |-> fl[cur],
             result |-> validate_field(sd, cur, key, a)]
      [] op = "store_field" ->
            LET r == store_field(sd, cur, key, a)
            IN  [session |-> r.sd[cur], file |-> fl[cur], result |-> r.result]
      [] op = "log_message" ->
            LET r == log_message_with_session(sd, cur, a, b, now)
            IN  [session |-> r.sd[cur], file |-> fl[cur], result |-> r.result]
      [] op = "log_conversation_turn" ->
            LET r == log_conversation_turn(sd, fl, cur, a, b, now,
                         IF io = "none" THEN "ok" ELSE io)
            IN  [session |-> r.sd[cur], file |-> r.fl[cur], result |-> r.result]
      [] op = "save_current_session" ->
            LET r == save_session(sd, fl, cur, io)
            IN  [session |-> r.sd[cur], file |-> r.fl[cur], result |-> r.result]
      [] op = "force_save_session" ->
            LET r == force_save_session(sd, fl, cur, io)
            IN  [session |-> r.sd[cur], file |-> r.fl[cur], result |-> r.result]
      [] op = "reset_current_session" ->
            LET r == reset_session(sd, fl, cur, io)
            IN  [session |-> r.sd[cur], file |-> r.fl[cur], result |-> r.result]
      [] op = "is_onboarding_complete" ->
            [session |-> got[cur], file |-> fl[cur],
             result |-> is_onboarding_complete(sd, cur)]
      [] op = "get_summary" ->
            [session |-> got[cur], file |-> fl[cur],
             result |-> get_summary(sd, cur)]
      [] op = "get_current_state" ->
            [session |-> got[cur], file |-> fl[cur],
             result |-> get_current_state(sd, cur)]
      [] op = "get_conversation_history" ->
            [session |-> got[cur], file |-> fl[cur],
             result |-> get_conversation_history(sd, cur)]

\* C17: a zero-argument operation acts on the session the pointer names
\* when it is called, the one of the last set_current_session_id: it does
\* to that session and its record what the operation does, returns the
\* result for that session, and leaves every other session and record as
\* they are, whichever Assistants were made before.
C17_PointerReadAtCall ==
    [][ last_op'.op \in ZeroArgOps =>
        LET cur == current_session_id
            z == ZeroArgOn(last_op'.op, cur, last_op'.key, last_op'.a,
                           last_op'.b, last_op'.io, sessions_data, files, clock)
        IN  /\ last_op'.id = cur
            /\ cur \in DOMAIN sessions_data'
            /\ z = [session |-> sessions_data'[cur], file |-> files'[cur],
                    result |-> last_op'.result]
            /\ \A k \in Keys \ {cur} :
                  /\ SessionIn(sessions_data', k) = SessionIn(sessions_data, k)
                  /\ files'[k] = files[k] ]_vars

\* Assistants of A and of B were made, B last; a field was stored, and it is
\* in the session of B while A has no session
C17_Witness ==
    /\ last_op.op = "store_field"
    /\ last_op.result = "stored"
    /\ assistants = {"A", "B"}
    /\ current_session_id = "B"
    /\ "A" \notin DOMAIN sessions_data
    /\ sessions_data["B"].onboarding_state.d[last_op.key] = PyStr(last_op.a)

HookOps ==
    {"on_message", "on_participant_speech_end", "on_agent_speech_end",
     "on_user_speech_end"}

\* C18: when a hook of the Assistant of session S has run and its save
\* succeeded, the log of S is the log before with one more entry that
\* carries the utterance and its speaker, and the record of S is the dump of
\* the session of S in memory; the pointer, whatever it is, is unchanged.
C18_HookLogsAndPersists ==
    [][ (last_op'.op \in HookOps /\ last_op'.result = "saved") =>
        LET id == last_op'.id
            before == LogOf(sessions_data, id).l
            after == sessions_data'[id].conversation_log.l
        IN  /\ Len(after) = Len(before) + 1
            /\ SubSeq(after, 1, Len(before)) = before
            /\ after[Len(after)].d["speaker"] = PyStr(last_op'.a)
            /\ after[Len(after)].d["text"] = PyStr(last_op'.b)
            /\ last_op'.a \in {USER, ASSISTANT}
            /\ files'[id] = RecordOf(sessions_data', id)
            /\ current_session_id' = current_session_id ]_vars

\* a hook of the Assistant of A logged and saved while the pointer named B
C18_Witness ==
    /\ last_op.op \in HookOps
    /\ last_op.result = "saved"
    /\ last_op.id = "A"
    /\ current_session_id = "B"
    /\ sessions_data["A"].conversation_log.l # <<>>
    /\ files["A"] = RecordOf(sessions_data, "A")

\* C19: save_session(id), whether it succeeds or fails, leaves the
\* onboarding fields and the conversation log of every session as they
\* were; and a successful save_session(id) followed at once by another
\* successful save_session(id) leaves the record the first one wrote.
C19_SaveKeepsMemoryIdempotent ==
    [][ last_op'.op = "save_session" =>
        LET id == last_op'.id
            again == save_session(sessions_data', files', id, "ok")
        IN  /\ \A k \in Keys :
                  /\ OnboardingOf(sessions_data', k) = OnboardingOf(sessions_data, k)
                  /\ LogOf(sessions_data', k) = LogOf(sessions_data, k)
            /\ last_op'.result = "saved" =>
                  /\ again.result = "saved"
                  /\ again.fl = files'
                  /\ again.sd = sessions_data'
            /\ (/\ last_op.op = "save_session"
                /\ last_op.id = id
                /\ last_op.result = "saved"
                /\ last_op'.result = "saved") => files' = files ]_vars

\* a session with a logged entry was saved and its record holds it
C19_Witness ==
    /\ last_op.op = "save_session"
    /\ last_op.result = "saved"
    /\ sessions_data[last_op.id].conversation_log.l # <<>>
    /\ files[last_op.id] = RecordOf(sessions_data, last_op.id)
    /\ snapshot[last_op.id] = sessions_data[last_op.id]

\* every entry of a list of entries has the speaker user or assistant
SpeakersKnown(entries) ==
    \A i \in 1..Len(entries) :
        entries[i].d["speaker"] \in {PyStr(USER), PyStr(ASSISTANT)}

\* C20: every entry of every conversation log, and of every record that
\* save_session wrote, has the speaker user or assistant.
C20_SpeakerUserOrAssistant ==
    /\ \A id \in DOMAIN sessions_data :
          SpeakersKnown(sessions_data[id].conversation_log.l)
    /\ \A id \in Keys :
          files[id].f = "json" =>
              SpeakersKnown(json_load(files[id].x).d["conversation"].l)

\* the zero-argument operations that create, store, append or write
MutatingZeroArgOps ==
    {"store_field", "log_message", "log_conversation_turn",
     "force_save_session", "reset_current_session"}

\* C21: while set_current_session_id was never called since the process
\* started (the pointer is the initial ""), a call of store_field,
\* log_message, log_conversation_turn, force_save_session or
\* reset_current_session creates no session, stores no field, appends no
\* entry and writes no record.
C21_UnsetPointerNoEffect ==
    [][ (/\ assistants = {}
         /\ current_session_id = ""
         /\ last_op'.op \in MutatingZeroArgOps)
        => /\ sessions_data' = sessions_data
           /\ files' = files ]_vars

ReadOnlyOps ==
    {"validate_field", "is_onboarding_complete", "get_summary",
     "get_current_state", "get_conversation_history"}

\* the session an operation finds under the key k: the one in the store,
\* or the empty one that the first access makes
SessionFound(sd, k) == IF k \in DOMAIN sd THEN sd[k] ELSE NewSession

\* C22: validate_field, is_onboarding_complete, get_summary,
\* get_current_state and get_conversation_history leave the onboarding
\* fields and the conversation log of every session, the current-session
\* pointer and every persisted record unchanged, whatever they return.
C22_ReadOnlyOpsChangeNothing ==
    [][ last_op'.op \in ReadOnlyOps =>
        /\ \A k \in Keys :
              SessionFound(sessions_data', k) = SessionFound(sessions_data, k)
        /\ current_session_id' = current_session_id
        /\ files' = files ]_vars

\* a read-only operation ran on a session that holds a stored field and a
\* logged entry and has a record
C22_Witness ==
    /\ last_op.op \in ReadOnlyOps
    /\ last_op.id = current_session_id
    /\ current_session_id \in DOMAIN sessions_data
    /\ LET s == sessions_data[current_session_id] IN
          \/ /\ s.onboarding_state.t = "dict"
             /\ \E f \in Fields : FieldValue(s.onboarding_state, f).t = "str"
             /\ files[current_session_id].f = "json"
          \/ /\ s.conversation_log.t = "list"
             /\ s.conversation_log.l # <<>>
             /\ files[current_session_id].f = "json"

\* C23: one store_field(f, v) call validates against and writes one
\* session, the session of the pointer when the call starts: the pointer is
\* the same when the call ends, the verdict is the verdict of
\* validate_field on that session, and the value is written there and
\* nowhere else, whatever other tasks did before or do after the call.
C23_StoreFieldOneSession ==
    [][ last_op'.op = "store_field" =>
        LET cur == current_session_id
            f == last_op'.key
            sd1 == get_session_data(sessions_data, cur)
            verdict == validate_field(sessions_data, cur, f, last_op'.a)
        IN  /\ current_session_id' = cur
            /\ last_op'.id = cur
            /\ IF verdict = "valid"
               THEN /\ last_op'.result = "stored"
                    /\ sessions_data' =
                          [sd1 EXCEPT ![cur].onboarding_state =
                              PyDict([@.d EXCEPT ![f] = PyStr(last_op'.a)])]
               ELSE /\ last_op'.result =
                          (IF verdict = "invalid" THEN "rejected" ELSE verdict)
                    /\ sessions_data' = sd1 ]_vars

\* after a task set the pointer to the session of its Assistant, a
\* store_field call stored into that session while another session holds
\* other data
C23_Witness ==
    /\ last_op.op = "store_field"
    /\ last_op.result = "stored"
    /\ current_session_id \in assistants
    /\ last_op.id = current_session_id
    /\ sessions_data[current_session_id].onboarding_state.d[last_op.key]
         = PyStr(last_op.a)
    /\ \E k \in DOMAIN sessions_data \ {current_session_id} :
          /\ sessions_data[k] # NewSession
          /\ sessions_data[k] # sessions_data[current_session_id]

\* C24: store_field(f, v) changes at most field f of the session of the
\* pointer: the other fields and the conversation log of that session,
\* every other session, the pointer and every record are as they were,
\* whether the call stores, rejects or fails.
C24_StoreFieldFrame ==
    [][ last_op'.op = "store_field" =>
        LET cur == current_session_id
            before == SessionFound(sessions_data, cur)
            after == SessionFound(sessions_data', cur)
        IN  /\ \A k \in Keys \ {cur} :
                  SessionIn(sessions_data', k) = SessionIn(sessions_data, k)
            /\ current_session_id' = cur
            /\ files' = files
            /\ after.conversation_log = before.conversation_log
            /\ IF before.onboarding_state.t = "dict"
               THEN /\ after.onboarding_state.t = "dict"
                    /\ DOMAIN after.onboarding_state.d
                         = DOMAIN before.onboarding_state.d
                    /\ \A g \in DOMAIN before.onboarding_state.d
                                  \ {last_op'.key} :
                          after.onboarding_state.d[g]
                            = before.onboarding_state.d[g]
               ELSE after.onboarding_state = before.onboarding_state ]_vars

\* store_field stored a field in a session that already held another field
\* and a logged entry
C24_Witness ==
    /\ last_op.op = "store_field"
    /\ last_op.result = "stored"
    /\ last_op.id = current_session_id
    /\ LET s == sessions_data[current_session_id] IN
          /\ s.onboarding_state.d[last_op.key] = PyStr(last_op.a)
          /\ \E g \in Fields \ {last_op.key} :
                s.onboarding_state.d[g].t = "str"
          /\ s.conversation_log.t = "list"
          /\ s.conversation_log.l # <<>>

====
